---- MODULE Spec2Model ----
(***************************************************************************)
(* Person re-identification: the server-side orchestration flow            *)
(* (src/src/ai/flows/re-identify-person.ts, bounding-box variant) and the  *)
(* client-side frame-extraction pipeline of the page (src/unnamed/part_002).*)
(*                                                                         *)
(* Numbers.  Times are integers counted in ticks of 1/TicksPerSecond s,    *)
(* the resolution at which bytes / (0.5*1024*1024) is exact for every      *)
(* string length.  Box coordinates are integers counted in 1/CoordScale.   *)
(* A data URI is the pair (length, index of its first comma), which is all *)
(* that indexOf(',') and substring() read of it.                           *)
(*                                                                         *)
(* Specifications.  Spec is the server request on its own.  SpecClient is  *)
(* the page from its construction, the server action answering with any of *)
(* ServerVerdicts.  SpecExtract is one analysis of the page, from the click *)
(* on the button to the published result, with nothing dropped meanwhile.  *)
(* SpecExtractFair is SpecExtract with the armed timers firing.            *)
(* SpecSubmit is a call of handleReIdentify on an idle page with any       *)
(* selection of files, the missing ones included, followed by its run.     *)
(***************************************************************************)
EXTENDS Integers, Sequences, FiniteSets, Bags, TLC

VARIABLES
    fpc,            \* position of the server request: idle / invoking / settled / returned
    input,          \* the input of the request in flight (its videoDataUri)
    videoDuration,  \* const videoDuration of reIdentifyPersonFlow, in ticks
    llmResponse,    \* the settled model call: nothing yet, or its .output (itself optional)
    flowOutcome,    \* how the promise of reIdentifyPersonFlow settled
    verdict,        \* what reIdentifyPerson returned to its caller
    photoFile,          \* useState photoFile
    photoDataUri,       \* useState photoDataUri
    videoFile,          \* useState videoFile
    videoDataUri,       \* useState videoDataUri: the file whose data URI goes to the backend
    videoSrc,           \* useState videoSrc: the file whose object URL the <video> plays
    result,             \* useState result
    loading,            \* useState loading
    extractionProgress, \* useState extractionProgress, as a fraction
    error,              \* useState error
    toasts,             \* titles of the toasts shown since the last click on the button
    reads,              \* FileReaders that have not answered yet: a bag, one reader
                        \* being made at every drop, of the same file or another
    drops,              \* number of drops so far
    clicks,             \* number of clicks on the button so far
    hpc,                \* position of handleReIdentify: idle / awaitingFlow / extracting
    hInput,             \* const input of handleReIdentify
    llmResult,          \* const llmResult of handleReIdentify
    canvas,             \* whether canvas.getContext('2d') answers a context ("ok") or
                        \* null ("noContext"), for the life of the page; canvasRef.current
                        \* is set throughout, the <canvas> being rendered unconditionally
    video,              \* the hidden <video> element: the mounted one, or the one a
                        \* running extractSnapshots holds after it was unmounted
    videoRef,           \* videoRef.current while it is another element than video:
                        \* the <video> mounted by a drop while extractSnapshots
                        \* holds an unmounted one
    ex,                 \* locals of extractSnapshots and of the extractFrame it awaits
    timers              \* setTimeout callbacks that can still act: one whose promise
                        \* has settled returns at once and is dropped with the settling

flowVars == <<fpc, input, videoDuration, llmResponse, flowOutcome, verdict>>

pageFiles == <<photoFile, photoDataUri, videoFile, videoDataUri, videoSrc, reads, drops>>
pageRun == <<result, loading, extractionProgress, error, toasts, hpc, hInput, llmResult, clicks>>
pageElement == <<canvas, video, videoRef, ex, timers>>

clientVars == <<pageFiles, pageRun, pageElement>>

vars == <<flowVars, clientVars>>

----------------------------------------------------------------------------
(* Bounds of the model *)

\* longest identification list the model adapter returns
MaxIds == 2
\* box coordinates are multiples of 1/CoordScale
CoordScale == 2
\* files dropped on the page
MaxDrops == 3
\* clicks on the button
MaxRuns == 2
\* longest identification list the page receives
MaxFrames == 2

(* Constants of the program *)

\* bytes = base64Data.length * 0.75
Base64Num == 3
Base64Den == 4
\* 0.5 * 1024 * 1024 bytes per second
BytesPerSecond == (1024 * 1024) \div 2
\* Math.max(1, Math.min(estimatedDuration, 120))
MinSeconds == 1
MaxSeconds == 120

TicksPerSecond == Base64Den * BytesPerSecond

\* a variable that holds nothing yet
None == "none"

\* A value that may be missing (undefined or null in the program) is a
\* sequence of at most one element.
Undefined == <<>>
Some(v) == <<v>>
IsDefined(o) == o # <<>>
Get(o) == o[1]

Min(a, b) == IF a <= b THEN a ELSE b
Max(a, b) == IF a >= b THEN a ELSE b

\* String.prototype.includes
includes(s, sub) ==
    \E str \in {s} :
       \E i \in 1..(Len(str) - Len(sub) + 1) : SubSeq(str, i, i + Len(sub) - 1) = sub

----------------------------------------------------------------------------
(* Strings of the request *)

\* A data URI as indexOf and substring see it: its length and the index of
\* its first ',' (-1 when it has none).
DataUri(len, comma) == [length |-> len, comma |-> comma]

\* String.prototype.indexOf(',')
indexOfComma(s) == s.comma

\* String.prototype.substring(start).length: start is clamped to [0, length]
substringLength(s, start) == s.length - Max(0, Min(start, s.length))

HeaderLen == Len("data:video/mp4;base64,")

\* length of a base64 payload that the estimator takes for that many seconds
PayloadChars(seconds) == (seconds * TicksPerSecond) \div Base64Num

\* video references: "", a header with an empty payload, payloads without any
\* header, a lone ",", payloads worth 1 s and less, 3 s, 120 s and more
VideoUris ==
    { DataUri(0, -1),
      DataUri(1, 0),
      DataUri(HeaderLen, HeaderLen - 1),
      DataUri(7, -1),
      DataUri(PayloadChars(3), -1),
      DataUri(HeaderLen + PayloadChars(MinSeconds), HeaderLen - 1),
      DataUri(HeaderLen + PayloadChars(3), HeaderLen - 1),
      DataUri(HeaderLen + PayloadChars(MaxSeconds), HeaderLen - 1),
      DataUri(HeaderLen + PayloadChars(MaxSeconds + 1), HeaderLen - 1) }

----------------------------------------------------------------------------
(* Duration Estimator *)

\* estimateVideoDuration with Math.max / Math.min exchanged
estimateVideoDuration_swapped(uri) ==
    LET base64Length == substringLength(uri, indexOfComma(uri) + 1)
        estimatedDuration == base64Length * Base64Num
    IN  Min(MinSeconds * TicksPerSecond, Max(estimatedDuration, MaxSeconds * TicksPerSecond))

\* estimateVideoDuration with the header counted as payload
estimateVideoDuration_header(uri) ==
    LET base64Length == substringLength(uri, 0)
        estimatedDuration == base64Length * Base64Num
    IN  Max(MinSeconds * TicksPerSecond, Min(estimatedDuration, MaxSeconds * TicksPerSecond))

\* estimateVideoDuration(videoDataUri), in ticks: length * 0.75 bytes at
\* BytesPerSecond are length * Base64Num ticks
estimateVideoDuration(uri) ==
    LET base64Length == substringLength(uri, indexOfComma(uri) + 1)
        estimatedDuration == base64Length * Base64Num
    IN  Max(MinSeconds * TicksPerSecond, Min(estimatedDuration, MaxSeconds * TicksPerSecond))

----------------------------------------------------------------------------
(* What the model adapter can deliver *)

Box(x0, y0, x1, y1) == [xMin |-> x0, yMin |-> y0, xMax |-> x1, yMax |-> y1]

ValidBoxes ==
    { Box(0, 0, CoordScale, CoordScale), Box(0, 1, 1, CoordScale) }

\* one box for each way of failing the check
InvalidBoxes ==
    { Box(-1, 0, CoordScale, CoordScale),
      Box(0, -1, CoordScale, CoordScale),
      Box(0, 0, CoordScale + 1, CoordScale),
      Box(0, 0, CoordScale, CoordScale + 1),
      Box(1, 0, 1, CoordScale),
      Box(0, CoordScale, CoordScale, 1) }

\* timestamps around the bounds 0 and videoDuration of every video reference
ModelTimestamps ==
    { -1, 0, MinSeconds * TicksPerSecond, MinSeconds * TicksPerSecond + 1,
      3 * TicksPerSecond, MaxSeconds * TicksPerSecond + 1 }

Identification(t, bb) == [timestamp |-> t, boundingBox |-> bb]

ModelIdentifications ==
    { Identification(t, bb) : t \in ModelTimestamps, bb \in {Undefined, Some(Box(0, 1, 1, CoordScale))} }
    \cup { Identification(0, Some(bb)) : bb \in ValidBoxes \cup InvalidBoxes }
    \cup { Identification(MinSeconds * TicksPerSecond, Some(Box(1, 0, 1, CoordScale))) }

SeqsUpTo(S, n) == UNION { [1..k -> S] : k \in 0..n }

ModelHeads ==
    { [isPresent |-> FALSE, confidence |-> Undefined, reason |-> "No match"],
      [isPresent |-> TRUE, confidence |-> Some(CoordScale), reason |-> "Person matching photo seen near the entrance."],
      [isPresent |-> FALSE, confidence |-> Some(1), reason |-> "No individual matching the photo was observed."] }

Verdict(head, ids) ==
    [isPresent |-> head.isPresent, confidence |-> head.confidence,
     reason |-> head.reason, identifications |-> ids]

ModelOutputs ==
    { Verdict(h, ids) : h \in ModelHeads,
                        ids \in {Undefined} \cup { Some(l) : l \in SeqsUpTo(ModelIdentifications, MaxIds) } }

\* llmResponse.output: a verdict, or nothing at all
ModelResponses == {Undefined} \cup { Some(o) : o \in ModelOutputs }

\* values a rejected model call can throw: Error objects and a bare string
ErrorValue(m) == [isError |-> TRUE, message |-> m]
ThrownValues ==
    { ErrorValue("fetch failed"), ErrorValue(""), [isError |-> FALSE, message |-> "boom"] }

----------------------------------------------------------------------------
(* Validation of the model's identifications (reIdentifyPersonFlow) *)

\* the filter without its upper bound
timestampInRange_noUpperBound(id, duration) ==
    id.timestamp >= 0

\* .filter(id => id.timestamp >= 0 && id.timestamp <= videoDuration)
timestampInRange(id, duration) ==
    id.timestamp >= 0 /\ id.timestamp <= duration

\* the check with > for >= on the corners: an empty box passes
boxInvalid_emptyBoxPasses(bb) ==
    \/ bb.xMin < 0 \/ bb.xMin > CoordScale \/ bb.yMin < 0 \/ bb.yMin > CoordScale
    \/ bb.xMax < 0 \/ bb.xMax > CoordScale \/ bb.yMax < 0 \/ bb.yMax > CoordScale
    \/ bb.xMin > bb.xMax \/ bb.yMin > bb.yMax

\* the condition under which the flow removes a bounding box
boxInvalid(bb) ==
    \/ bb.xMin < 0 \/ bb.xMin > CoordScale \/ bb.yMin < 0 \/ bb.yMin > CoordScale
    \/ bb.xMax < 0 \/ bb.xMax > CoordScale \/ bb.yMax < 0 \/ bb.yMax > CoordScale
    \/ bb.xMin >= bb.xMax \/ bb.yMin >= bb.yMax

\* the callback of .map() returning nothing for an invalid box, so that the
\* identification is lost with it
stripInvalidBox_dropsIdentification(id) ==
    IF IsDefined(id.boundingBox) /\ boxInvalid(Get(id.boundingBox))
    THEN [timestamp |-> -1, boundingBox |-> Undefined]
    ELSE id

\* the callback of .map(): an invalid box is removed, the timestamp kept
stripInvalidBox(id) ==
    IF IsDefined(id.boundingBox) /\ boxInvalid(Get(id.boundingBox))
    THEN [timestamp |-> id.timestamp, boundingBox |-> Undefined]
    ELSE id

RECURSIVE filterSeq(_, _)
filterSeq(s, duration) ==
    IF s = <<>> THEN <<>>
    ELSE IF timestampInRange(Head(s), duration)
         THEN <<Head(s)>> \o filterSeq(Tail(s), duration)
         ELSE filterSeq(Tail(s), duration)

mapSeq(s) == [i \in 1..Len(s) |-> stripInvalidBox(s[i])]

\* insertion in front of the elements that compare equal: a sort that is not
\* stable
RECURSIVE insertSorted_beforeEqual(_, _)
insertSorted_beforeEqual(x, s) ==
    IF s = <<>> THEN <<x>>
    ELSE IF Head(s).timestamp - x.timestamp >= 0
         THEN <<x>> \o s
         ELSE <<Head(s)>> \o insertSorted_beforeEqual(x, Tail(s))

\* insert x behind every element that does not compare greater (stable)
RECURSIVE insertSorted(_, _)
insertSorted(x, s) ==
    IF s = <<>> THEN <<x>>
    ELSE IF Head(s).timestamp - x.timestamp > 0
         THEN <<x>> \o s
         ELSE <<Head(s)>> \o insertSorted(x, Tail(s))

\* the list left in the order received
sortByTimestamp_asReceived(s) == s

\* .sort((a, b) => a.timestamp - b.timestamp): Array.prototype.sort is stable
RECURSIVE sortByTimestamp(_)
sortByTimestamp(s) ==
    IF s = <<>> THEN <<>>
    ELSE insertSorted(s[Len(s)], sortByTimestamp(SubSeq(s, 1, Len(s) - 1)))

\* llmOutput.identifications.filter(...).map(...).sort(...)
validateIdentifications(ids, duration) ==
    sortByTimestamp(mapSeq(filterSeq(ids, duration)))

\* the body with "return output!" for the check of the output: a missing
\* output becomes a verdict
flowBody_defaultsOnNoOutput(output, duration) ==
    IF ~IsDefined(output)
    THEN [kind |-> "return",
          value |-> [isPresent |-> FALSE, confidence |-> Undefined,
                     reason |-> "", identifications |-> Some(<<>>)]]
    ELSE [kind |-> "return",
          value |-> [Get(output) EXCEPT !.identifications =
                        IF IsDefined(Get(output).identifications)
                        THEN Some(validateIdentifications(Get(Get(output).identifications), duration))
                        ELSE Some(<<>>)]]

\* the body without the else branch: a missing list stays missing
flowBody_keepsUndefined(output, duration) ==
    IF ~IsDefined(output)
    THEN [kind |-> "throw", value |-> ErrorValue("LLM analysis failed to produce an output.")]
    ELSE [kind |-> "return",
          value |-> [Get(output) EXCEPT !.identifications =
                        IF IsDefined(Get(output).identifications)
                        THEN Some(validateIdentifications(Get(Get(output).identifications), duration))
                        ELSE Undefined]]

\* the body of reIdentifyPersonFlow after the model call: a missing output
\* throws, a missing list becomes [], a list is validated
flowBody(output, duration) ==
    IF ~IsDefined(output)
    THEN [kind |-> "throw", value |-> ErrorValue("LLM analysis failed to produce an output.")]
    ELSE [kind |-> "return",
          value |-> [Get(output) EXCEPT !.identifications =
                        IF IsDefined(Get(output).identifications)
                        THEN Some(validateIdentifications(Get(Get(output).identifications), duration))
                        ELSE Some(<<>>)]]

\* the catch block with a fixed reason
degradedVerdict_fixedReason(thrown) ==
    [isPresent |-> FALSE,
     confidence |-> Undefined,
     reason |-> "An error occurred during processing",
     identifications |-> Some(<<>>)]

\* the catch block of reIdentifyPerson
degradedVerdict(thrown) ==
    [isPresent |-> FALSE,
     confidence |-> Undefined,
     reason |-> "An error occurred during processing: "
                \o (IF thrown.isError THEN thrown.message ELSE "Unknown error"),
     identifications |-> Some(<<>>)]

----------------------------------------------------------------------------
(* The server request *)

FlowInit ==
    /\ fpc = "idle"
    /\ input = None
    /\ videoDuration = 0
    /\ llmResponse = Undefined
    /\ flowOutcome = None
    /\ verdict = None

\* reIdentifyPerson(input) up to the await of the model call: the flow has
\* estimated the duration and called the prompt
reIdentifyPerson ==
    /\ fpc = "idle"
    /\ fpc' = "invoking"
    /\ \E uri \in VideoUris :
          /\ input' = [videoDataUri |-> uri]
          /\ videoDuration' = estimateVideoDuration(uri)
    /\ llmResponse' = Undefined
    /\ flowOutcome' = None
    /\ verdict' = None
    /\ UNCHANGED clientVars

\* the model call resolves and the flow runs to its return or throw
promptResolves ==
    /\ fpc = "invoking"
    /\ fpc' = "settled"
    /\ \E output \in ModelResponses :
          /\ llmResponse' = Some(output)
          /\ flowOutcome' = flowBody(output, videoDuration)
    /\ UNCHANGED <<input, videoDuration, verdict>>
    /\ UNCHANGED clientVars

\* the model call rejects: the flow's promise rejects with the same value
promptRejects ==
    /\ fpc = "invoking"
    /\ fpc' = "settled"
    /\ \E thrown \in ThrownValues :
          flowOutcome' = [kind |-> "throw", value |-> thrown]
    /\ UNCHANGED <<input, videoDuration, llmResponse, verdict>>
    /\ UNCHANGED clientVars

\* reIdentifyPerson: return result
entryReturns ==
    /\ fpc = "settled"
    /\ flowOutcome.kind = "return"
    /\ fpc' = "returned"
    /\ verdict' = flowOutcome.value
    /\ UNCHANGED <<input, videoDuration, llmResponse, flowOutcome>>
    /\ UNCHANGED clientVars

\* reIdentifyPerson: catch (error)
entryCatches ==
    /\ fpc = "settled"
    /\ flowOutcome.kind = "throw"
    /\ fpc' = "returned"
    /\ verdict' = degradedVerdict(flowOutcome.value)
    /\ UNCHANGED <<input, videoDuration, llmResponse, flowOutcome>>
    /\ UNCHANGED clientVars

\* the caller has taken the verdict; the server is free for the next request
requestDone ==
    /\ fpc = "returned"
    /\ fpc' = "idle"
    /\ input' = None
    /\ videoDuration' = 0
    /\ llmResponse' = Undefined
    /\ flowOutcome' = None
    /\ verdict' = None
    /\ UNCHANGED clientVars

FlowNext ==
    \/ reIdentifyPerson
    \/ promptResolves
    \/ promptRejects
    \/ entryReturns
    \/ entryCatches
    \/ requestDone

----------------------------------------------------------------------------
(* The page (Home): files, the hidden video element, frame extraction *)

\* readyState thresholds of extractSnapshots
HAVE_METADATA == 1
HAVE_CURRENT_DATA == 2
\* readyState from which the element has fired canplay
HAVE_FUTURE_DATA == HAVE_CURRENT_DATA + 1

placeholderDataUri ==
    "data:image/png;base64,iVBORw0KGgoAAAANSUhEUgAAAEAAAABACAAAAACgtt2+AAAAAXNSR0IArs4c6QAAAARnQU1BAACxjwv8YQUAAAAJcEhZcwAADsMAAA7DAcdvqGQAAABDSURBVDhPY2AYYAAGEgYGDAlQw/z//z/DwsKCMjIyAAAA///fVAGIYvj7+4eFhQUAAAAA///vrgQ0MDBgfHx8AADsHBFsXnVsmwAAAABJRU5ErkJggg=="

PhotoFiles == {"p.jpg"}
\* video files the dropzone accepts
VideoFiles == {"a.mp4", "b.mp4"}
\* a video file above the limit of the dropzone
OversizedFiles == {"huge.mp4"}

\* maxSize: 100 * 1024 * 1024 of the video dropzone, the limit of the size
\* check of handleReIdentify, in bytes
maxSize == 104857600

\* seconds that each video file plays at BytesPerSecond: 3 s, 1 s, and
\* half a megabyte more than maxSize
payloadSeconds(file) ==
    IF file = "a.mp4" THEN 3
    ELSE IF file = "b.mp4" THEN MinSeconds
    ELSE (maxSize \div BytesPerSecond) + 1

\* file.size in bytes
fileSize(file) == payloadSeconds(file) * BytesPerSecond

\* length of the base64 encoding of that many bytes: four characters for
\* every three bytes, the last group padded
base64Length(bytes) == 4 * ((bytes + 2) \div 3)

\* reader.result of readAsDataURL for each video file: the header
\* "data:video/mp4;base64," and the base64 encoding of the file
dataUriOf(file) ==
    DataUri(HeaderLen + base64Length(fileSize(file)), HeaderLen - 1)

\* a <video muted playsInline preload="auto"> element as React mounts it
NewVideoElement ==
    [muted |-> TRUE, paused |-> TRUE, readyState |-> 0, broken |-> FALSE,
     seeking |-> FALSE, currentTime |-> 0, listeners |-> {}]

\* the locals of extractSnapshots and of the extractFrame it awaits, while no
\* call is running; run counts the calls made
IdleExtraction ==
    [pc |-> "idle", run |-> 0, identifications |-> <<>>, snapshots |-> <<>>,
     i |-> 1, originalMuted |-> TRUE, originalPaused |-> TRUE, resolved |-> FALSE]

Listener(type, run, frame) == [type |-> type, run |-> run, frame |-> frame]
Timer(kind, run, frame) == [kind |-> kind, run |-> run, frame |-> frame]

NoProgress == [num |-> 0, den |-> 1]
\* ((i + 1) / totalSteps) * 100 as a fraction
Progress(done, totalSteps) == [num |-> done * 100, den |-> totalSteps]

\* a failed snapshot with no image
FailedSnapshot_emptyImage(id) ==
    [timestamp |-> id.timestamp, boundingBox |-> id.boundingBox,
     dataUri |-> "", generationStatus |-> "failed"]

\* a failed snapshot that forgets the box
FailedSnapshot_withoutBox(id) ==
    [timestamp |-> id.timestamp, boundingBox |-> Undefined,
     dataUri |-> placeholderDataUri, generationStatus |-> "failed"]

\* { timestamp, boundingBox, dataUri: placeholderDataUri, generationStatus: 'failed' }
FailedSnapshot(id) ==
    [timestamp |-> id.timestamp, boundingBox |-> id.boundingBox,
     dataUri |-> placeholderDataUri, generationStatus |-> "failed"]

ExtractedSnapshot(id, dataUri) ==
    [timestamp |-> id.timestamp, boundingBox |-> id.boundingBox,
     dataUri |-> dataUri, generationStatus |-> "extracted"]

\* what canvas.toDataURL can answer for each type: the image, or "data:,"
\* when the bitmap cannot be serialised
JpegAnswers == {"data:image/jpeg;base64,/9j/", "data:,"}
PngAnswers == {"data:image/png;base64,iVBORw0KGgoFRAME", "data:,"}

\* let dataUri = canvas.toDataURL('image/jpeg', 0.8);
\* if (!dataUri || dataUri === 'data:,') dataUri = canvas.toDataURL('image/png');
\* the answer of the PNG call is taken untested
encodeFrame(jpeg, png) ==
    IF jpeg = "" \/ jpeg = "data:," THEN png ELSE jpeg

\* the data URIs an encoding that does not throw can end with
EncodedFrames == { encodeFrame(jpeg, png) : jpeg \in JpegAnswers, png \in PngAnswers }

----------------------------------------------------------------------------
(* extractSnapshots: the steps that run between two awaits.  st holds what  *)
(* a step reads and writes: the element, the locals, the timers, the       *)
(* progress and the toasts.                                                *)

\* videoElement.play(), not awaited: paused becomes false at once, unless the
\* source of the element has failed (an error before any metadata, error
\* code MEDIA_ERR_SRC_NOT_SUPPORTED), in which case play() is refused and the
\* element stays paused
play(element) ==
    IF element.broken /\ element.readyState < HAVE_METADATA
    THEN element
    ELSE [element EXCEPT !.paused = FALSE]

\* videoElement.muted = originalMuted; if (!originalPaused) videoElement.play();
restoreElement(element, originalMuted, originalPaused) ==
    LET unmuted == [element EXCEPT !.muted = originalMuted]
    IN  IF originalPaused THEN unmuted ELSE play(unmuted)

\* an end of extractSnapshots that calls play() whatever the element did
\* before the call
finishExtraction_playing(st) ==
    [st EXCEPT !.video = restoreElement(@, st.ex.originalMuted, FALSE),
               !.progress = NoProgress,
               !.ex.pc = "done"]

\* the statements behind the for loop: restore the element, reset progress
finishExtraction(st) ==
    [st EXCEPT !.video = restoreElement(@, st.ex.originalMuted, st.ex.originalPaused),
               !.progress = NoProgress,
               !.ex.pc = "done"]

\* an extractFrame that arms no timeout
extractFrameCall_noTimeout(st, cv) ==
    LET x == st.ex
        id == x.identifications[x.i]
    IN  IF cv # "ok"
        THEN [st EXCEPT !.ex.resolved = TRUE]
        ELSE [st EXCEPT
                !.ex.resolved = FALSE,
                !.video.listeners = @ \cup {Listener("seeked", x.run, x.i),
                                            Listener("error", x.run, x.i)},
                !.video.currentTime = id.timestamp,
                !.video.seeking = TRUE]

\* extractFrame up to its return: without canvas or context it resolves
\* 'failed' at once, otherwise it listens, seeks and arms the 3 s timeout
extractFrameCall(st, cv) ==
    LET x == st.ex
        id == x.identifications[x.i]
    IN  IF cv # "ok"
        THEN [st EXCEPT !.ex.resolved = TRUE]
        ELSE [st EXCEPT
                !.ex.resolved = FALSE,
                !.video.listeners = @ \cup {Listener("seeked", x.run, x.i),
                                            Listener("error", x.run, x.i)},
                !.video.currentTime = id.timestamp,
                !.video.seeking = TRUE,
                !.timers = @ \cup {Timer("seek", x.run, x.i)}]

\* a loop that calls extractFrame for every identification without awaiting
\* any but the last
RECURSIVE runFrames_withoutAwait(_, _)
runFrames_withoutAwait(st, cv) ==
    LET x == st.ex IN
    IF x.i > Len(x.identifications)
    THEN finishExtraction(st)
    ELSE IF cv # "ok"
         THEN runFrames_withoutAwait([extractFrameCall(st, cv) EXCEPT
                            !.ex.snapshots = Append(@, FailedSnapshot(x.identifications[x.i])),
                            !.progress = Progress(x.i, Len(x.identifications)),
                            !.ex.i = @ + 1], cv)
         ELSE IF x.i < Len(x.identifications)
              THEN runFrames_withoutAwait([extractFrameCall(st, cv) EXCEPT !.ex.i = @ + 1], cv)
              ELSE [extractFrameCall(st, cv) EXCEPT !.ex.pc = "frame"]

\* the for loop of extractSnapshots from iteration st.ex.i on, until an
\* extractFrame is left pending or the list is exhausted
RECURSIVE runFrames(_, _)
runFrames(st, cv) ==
    LET x == st.ex IN
    IF x.i > Len(x.identifications)
    THEN finishExtraction(st)
    ELSE IF cv # "ok"
         THEN runFrames([extractFrameCall(st, cv) EXCEPT
                            !.ex.snapshots = Append(@, FailedSnapshot(x.identifications[x.i])),
                            !.progress = Progress(x.i, Len(x.identifications)),
                            !.ex.i = @ + 1], cv)
         ELSE [extractFrameCall(st, cv) EXCEPT !.ex.pc = "frame"]

\* a loop that a failed frame ends
resolveFrame_abortingOnFailure(st, snapshot, cv) ==
    LET pushed == [st EXCEPT !.ex.resolved = TRUE,
                             !.timers = { t \in @ : ~(t.run = st.ex.run /\ t.frame = st.ex.i) },
                             !.ex.snapshots = Append(@, snapshot),
                             !.progress = Progress(st.ex.i, Len(st.ex.identifications)),
                             !.ex.i = @ + 1]
    IN  IF snapshot.generationStatus = "failed"
        THEN finishExtraction(pushed)
        ELSE runFrames(pushed, cv)

\* a resolution that reaches the frames resolved before it: they take the
\* status and the image of the latest outcome
resolveFrame_resolvingAgain(st, snapshot, cv) ==
    LET again(snap) == [snap EXCEPT !.generationStatus = snapshot.generationStatus,
                                    !.dataUri = snapshot.dataUri]
        RECURSIVE all(_)
        all(l) == IF l = <<>> THEN <<>> ELSE <<again(Head(l))>> \o all(Tail(l))
    IN  runFrames([st EXCEPT !.ex.resolved = TRUE,
                             !.timers = { t \in @ : ~(t.run = st.ex.run /\ t.frame = st.ex.i) },
                             !.ex.snapshots = Append(all(@), snapshot),
                             !.progress = Progress(st.ex.i, Len(st.ex.identifications)),
                             !.ex.i = @ + 1], cv)

\* the pending extractFrame resolves with snapshot: the loop pushes it,
\* reports progress and goes on
resolveFrame(st, snapshot, cv) ==
    runFrames([st EXCEPT !.ex.resolved = TRUE,
                         !.timers = { t \in @ : ~(t.run = st.ex.run /\ t.frame = st.ex.i) },
                         !.ex.snapshots = Append(@, snapshot),
                         !.progress = Progress(st.ex.i, Len(st.ex.identifications)),
                         !.ex.i = @ + 1], cv)

\* a canplay wait without its timeout
afterMetadata_waitingUnbounded(st, cv) ==
    IF st.video.readyState < HAVE_CURRENT_DATA
    THEN [st EXCEPT !.ex.pc = "waitSeekable",
                    !.video.listeners = @ \cup {Listener("canplay", st.ex.run, 0)}]
    ELSE runFrames(st, cv)

\* behind the metadata wait: wait for canplay unless the element has data
afterMetadata(st, cv) ==
    IF st.video.readyState < HAVE_CURRENT_DATA
    THEN [st EXCEPT !.ex.pc = "waitSeekable",
                    !.video.listeners = @ \cup {Listener("canplay", st.ex.run, 0)},
                    !.timers = @ \cup {Timer("seekable", st.ex.run, 0)}]
    ELSE runFrames(st, cv)

\* a .catch() whose "return []" were the return of extractSnapshots
metadataFailed_returnsEmpty(st, cv) ==
    [st EXCEPT !.video = restoreElement(@, st.ex.originalMuted, st.ex.originalPaused),
               !.progress = NoProgress,
               !.toasts = @ \cup {"Snapshot Error"},
               !.ex.pc = "done"]

\* a .catch() of the metadata wait that leaves the element unmuted
metadataFailed_unmuting(st, cv) ==
    afterMetadata([st EXCEPT !.video = restoreElement(@, FALSE, st.ex.originalPaused),
                             !.progress = NoProgress,
                             !.toasts = @ \cup {"Snapshot Error"}], cv)

\* the .catch() of the metadata wait: the element is restored, the user told;
\* its "return []" ends the callback, and extractSnapshots goes on
metadataFailed(st, cv) ==
    afterMetadata([st EXCEPT !.video = restoreElement(@, st.ex.originalMuted,
                                                      st.ex.originalPaused),
                             !.progress = NoProgress,
                             !.toasts = @ \cup {"Snapshot Error"}], cv)

\* extractSnapshots(identifications) on a mounted element, up to its first await
extractSnapshotsCall(st, identifications, cv) ==
    LET st1 == [st EXCEPT
                  !.progress = NoProgress,
                  !.ex = [pc |-> "start", run |-> st.ex.run + 1,
                          identifications |-> identifications, snapshots |-> <<>>,
                          i |-> 1, originalMuted |-> st.video.muted,
                          originalPaused |-> st.video.paused, resolved |-> FALSE],
                  !.video.muted = TRUE,
                  !.video.paused = TRUE]
    IN  IF st1.video.readyState < HAVE_METADATA
        THEN [st1 EXCEPT !.ex.pc = "waitMeta",
                         !.video.listeners = @ \cup {Listener("loadedmetadata", st1.ex.run, 0),
                                                     Listener("error", st1.ex.run, 0)},
                         !.timers = @ \cup {Timer("meta", st1.ex.run, 0)}]
        ELSE afterMetadata(st1, cv)

\* extractSnapshots with videoRef.current null or an empty list: return []
extractSnapshotsSkipped(st, identifications) ==
    [st EXCEPT !.ex.pc = "done", !.ex.run = @ + 1, !.ex.snapshots = <<>>]

----------------------------------------------------------------------------
(* What the server action answers to the page *)

\* what reIdentifyPerson returns for a settled flow
entryResult(outcome) ==
    IF outcome.kind = "return" THEN outcome.value ELSE degradedVerdict(outcome.value)

ClientIdentifications ==
    { Identification(0, Some(Box(0, 1, 1, CoordScale))),
      Identification(MinSeconds * TicksPerSecond, Undefined) }

AbsentHead == [isPresent |-> FALSE, confidence |-> Undefined, reason |-> "No match"]
PresentHead == [isPresent |-> TRUE, confidence |-> Some(1), reason |-> "Seen near the entrance."]

\* what the model call hands to the flow: nothing, an absent verdict with or
\* without a list, a present verdict without a list or with any list
ClientResponses ==
    {Undefined}
    \cup { Some(Verdict(AbsentHead, ids)) :
             ids \in {Undefined} \cup { Some(<<id>>) : id \in ClientIdentifications } }
    \cup { Some(Verdict(PresentHead, ids)) :
             ids \in {Undefined} \cup { Some(l) : l \in SeqsUpTo(ClientIdentifications, MaxFrames) } }

\* the verdicts reIdentifyPerson can return for that video reference
ServerVerdicts(uri) ==
    { entryResult(flowBody(r, estimateVideoDuration(uri))) : r \in ClientResponses }
    \cup { entryResult([kind |-> "throw", value |-> ErrorValue("fetch failed")]) }

UpperCase == "ABCDEFGHIJKLMNOPQRSTUVWXYZ"
LowerCase == "abcdefghijklmnopqrstuvwxyz"

\* the lower-case form of the one-character string c
lowerChar(c) ==
    LET hit == { k \in 1..Len(UpperCase) : SubSeq(UpperCase, k, k) = c }
    IN  IF hit = {} THEN c
        ELSE LET k == CHOOSE k \in hit : TRUE IN SubSeq(LowerCase, k, k)

\* the characters of s from position i on, in lower case
RECURSIVE lowerFrom(_, _)
lowerFrom(s, i) ==
    IF i > Len(s) THEN ""
    ELSE lowerChar(SubSeq(s, i, i)) \o lowerFrom(s, i + 1)

\* String.prototype.toLowerCase on the letters A-Z
toLowerCase(s) == lowerFrom(s, 1)

----------------------------------------------------------------------------
(* The page's handlers *)

St == [video |-> video, ex |-> ex, timers |-> timers,
       progress |-> extractionProgress, toasts |-> toasts]

\* videoRef.current is set while the <video> is rendered, that is, while
\* videoSrc is set
videoRefMounted == videoSrc # None

ExtractionRunning == ex.pc \in {"waitMeta", "waitSeekable", "frame"}

\* an element exists whose events can fire: the mounted one, or the one a
\* running extraction holds
ElementAlive == videoRefMounted \/ ExtractionRunning

ClientInit ==
    /\ photoFile = None
    /\ photoDataUri = None
    /\ videoFile = None
    /\ videoDataUri = None
    /\ videoSrc = None
    /\ result = Undefined
    /\ loading = FALSE
    /\ extractionProgress = NoProgress
    /\ error = None
    /\ toasts = {}
    /\ reads = EmptyBag
    /\ drops = 0
    /\ clicks = 0
    /\ hpc = "idle"
    /\ hInput = Undefined
    /\ llmResult = Undefined
    /\ canvas \in {"ok", "noContext"}
    /\ video = NewVideoElement
    /\ videoRef = Undefined
    /\ ex = IdleExtraction
    /\ timers = {}

\* new FileReader() of a drop handler, reading file
FileReader(kind, file) == [kind |-> kind, file |-> file]

\* onDropPhoto with one accepted file
onDropPhoto ==
    /\ drops < MaxDrops
    /\ \E file \in PhotoFiles :
          /\ photoFile' = file
          /\ reads' = reads (+) SetToBag({FileReader("photo", file)})
    /\ drops' = drops + 1
    /\ UNCHANGED <<photoDataUri, videoFile, videoDataUri, videoSrc, pageRun, pageElement>>
    /\ UNCHANGED flowVars

\* reader.onload of onDropPhoto
photoReaderOnload ==
    /\ \E r \in BagToSet(reads) :
        /\ r.kind = "photo"
        /\ reads' = reads (-) SetToBag({r})
        /\ photoDataUri' = r.file
        /\ error' = None
        /\ result' = Undefined
        /\ UNCHANGED <<photoFile, videoFile, videoDataUri, videoSrc, drops,
                       loading, extractionProgress, toasts, hpc, hInput, llmResult, clicks,
                       pageElement>>
    /\ UNCHANGED flowVars

\* reader.onerror of onDropPhoto
photoReaderOnerror ==
    /\ \E r \in BagToSet(reads) :
        /\ r.kind = "photo"
        /\ reads' = reads (-) SetToBag({r})
        /\ error' = "Error reading photo file."
        /\ toasts' = toasts \cup {"Error"}
        /\ UNCHANGED <<photoFile, photoDataUri, videoFile, videoDataUri, videoSrc, drops,
                       result, loading, extractionProgress, hpc, hInput, llmResult, clicks,
                       pageElement>>
    /\ UNCHANGED flowVars

\* the mounted element is given another src: it starts to load again, its
\* listeners staying
withNewSrc(element) ==
    [element EXCEPT !.readyState = 0, !.broken = FALSE, !.seeking = FALSE,
                    !.paused = TRUE, !.currentTime = 0]

\* onDropVideo(acceptedFiles) with one file: the object URL becomes the src
\* of the hidden element, which is mounted or, when it is there, loads the
\* new src
onDropVideoCalled(file) ==
    /\ videoFile' = file
    /\ videoSrc' = file
    /\ reads' = reads (+) SetToBag({FileReader("video", file)})
    /\ drops' = drops + 1
    /\ error' = None
    /\ result' = Undefined
    /\ IF videoRefMounted
       THEN IF IsDefined(videoRef)
            THEN /\ videoRef' = Some(withNewSrc(Get(videoRef)))
                 /\ video' = video
            ELSE /\ video' = withNewSrc(video)
                 /\ videoRef' = videoRef
       ELSE IF ExtractionRunning
            THEN /\ videoRef' = Some(NewVideoElement)
                 /\ video' = video
            ELSE /\ video' = NewVideoElement
                 /\ videoRef' = videoRef
    /\ UNCHANGED <<photoFile, photoDataUri, videoDataUri,
                   loading, extractionProgress, toasts, hpc, hInput, llmResult, clicks,
                   canvas, ex, timers>>
    /\ UNCHANGED flowVars

\* a drop on the video dropzone, which hands onDropVideo the files up to
\* maxSize
onDropVideo ==
    /\ drops < MaxDrops
    /\ \E file \in VideoFiles \cup OversizedFiles :
          /\ fileSize(file) <= maxSize
          /\ onDropVideoCalled(file)

\* reader.onload of onDropVideo
videoReaderOnload ==
    /\ \E r \in BagToSet(reads) :
        /\ r.kind = "video"
        /\ reads' = reads (-) SetToBag({r})
        /\ videoDataUri' = r.file
        /\ UNCHANGED <<photoFile, photoDataUri, videoFile, videoSrc, drops, pageRun, pageElement>>
    /\ UNCHANGED flowVars

\* reader.onerror of onDropVideo: the video source is cleared, which unmounts
\* the hidden element
videoReaderOnerror ==
    /\ \E r \in BagToSet(reads) :
        /\ r.kind = "video"
        /\ reads' = reads (-) SetToBag({r})
        /\ error' = "Error reading video file for backend."
        /\ videoSrc' = None
        /\ videoRef' = Undefined
        /\ toasts' = toasts \cup {"Error"}
        /\ UNCHANGED <<photoFile, photoDataUri, videoFile, videoDataUri, drops,
                       result, loading, extractionProgress, hpc, hInput, llmResult, clicks,
                       canvas, video, ex, timers>>
    /\ UNCHANGED flowVars

\* onDropRejected of the video dropzone
onDropRejected ==
    /\ drops < MaxDrops
    /\ drops' = drops + 1
    /\ \E title \in {"File Too Large", "Invalid File"} :
          /\ error' = IF title = "File Too Large"
                      THEN "Video file is too large. Please upload a smaller video (under 100MB)."
                      ELSE "Invalid video file type or other error."
          /\ toasts' = toasts \cup {title}
    /\ videoFile' = None
    /\ videoDataUri' = None
    /\ videoSrc' = None
    /\ videoRef' = Undefined
    /\ UNCHANGED <<photoFile, photoDataUri, reads,
                   result, loading, extractionProgress, hpc, hInput, llmResult, clicks,
                   canvas, video, ex, timers>>
    /\ UNCHANGED flowVars

\* the statements of handleReIdentify behind the await of extractSnapshots (or
\* behind the verdict when nothing is extracted), its finally block included
publish(v, extracted, snapshots, shown) ==
    LET successfulSnaps ==
            Cardinality({ k \in DOMAIN snapshots : snapshots[k].generationStatus = "extracted" })
        outcomeToast ==
            IF extracted
            THEN IF successfulSnaps > 0 THEN "Snapshots Extracted"
                 ELSE IF Len(snapshots) > 0 THEN "Snapshot Extraction Issues"
                 ELSE "Snapshots"
            ELSE IF v.isPresent THEN "Person Identified" ELSE "Person Not Identified"
    IN  /\ \E reasonIsError \in {includes(toLowerCase(v.reason), "error")} :
              /\ toasts' = shown \cup {outcomeToast}
                           \cup (IF reasonIsError THEN {"Processing Issue"} ELSE {})
              /\ error' = IF reasonIsError THEN v.reason ELSE error
        /\ result' = Some([isPresent |-> v.isPresent, confidence |-> v.confidence,
                           reason |-> v.reason, identifications |-> v.identifications,
                           snapshots |-> snapshots])
        /\ loading' = FALSE
        /\ extractionProgress' = NoProgress
        /\ hpc' = "idle"
        /\ hInput' = Undefined
        /\ llmResult' = Undefined

\* a handleReIdentify that does not await extractSnapshots: the result is
\* published with the snapshots collected so far
commit_withoutAwait(st, v, awaited) ==
    \E s \in {st} :
       /\ video' = s.video
       /\ videoRef' = videoRef
       /\ timers' = s.timers
       /\ IF awaited
          THEN /\ publish(v, TRUE, s.ex.snapshots, s.toasts)
               /\ ex' = s.ex
          ELSE /\ ex' = s.ex
               /\ extractionProgress' = s.progress
               /\ toasts' = s.toasts
               /\ hpc' = hpc
               /\ llmResult' = llmResult
               /\ UNCHANGED <<result, loading, error, hInput>>

\* a step of extractSnapshots ends in st: the element, the locals and the
\* timers are written back; when extractSnapshots has returned, the awaiting
\* handleReIdentify goes on to publish the result and the locals are gone,
\* and with them an unmounted element they held, which leaves the element
\* mounted meanwhile
commit(st, v, awaited) ==
    \E s \in {st} :
       /\ timers' = s.timers
       /\ IF awaited /\ s.ex.pc = "done"
          THEN /\ publish(v, TRUE, s.ex.snapshots, s.toasts)
               /\ ex' = [IdleExtraction EXCEPT !.run = s.ex.run]
               /\ video' = IF IsDefined(videoRef) THEN Get(videoRef) ELSE s.video
               /\ videoRef' = Undefined
          ELSE /\ video' = s.video
               /\ videoRef' = videoRef
               /\ ex' = s.ex
               /\ extractionProgress' = s.progress
               /\ toasts' = s.toasts
               /\ hpc' = IF awaited THEN "extracting" ELSE hpc
               /\ llmResult' = IF awaited THEN Some(v) ELSE llmResult
               /\ UNCHANGED <<result, loading, error, hInput>>

\* a handleReIdentify without its check for missing files
handleReIdentifyCalled_unchecked ==
    /\ clicks' = clicks + 1
    /\ loading' = TRUE
    /\ error' = None
    /\ result' = Undefined
    /\ extractionProgress' = NoProgress
    /\ toasts' = {}
    /\ hInput' = Some([photoDataUri |-> photoDataUri, videoDataUri |-> videoDataUri])
    /\ hpc' = "awaitingFlow"
    /\ UNCHANGED <<pageFiles, llmResult, pageElement>>
    /\ UNCHANGED flowVars

\* handleReIdentify from its call up to the await of the server action: a
\* video above 100 MB is warned about and analysed all the same, the error of
\* the warning being cleared with the start of the run
handleReIdentifyCalled ==
    /\ clicks' = clicks + 1
    /\ IF photoDataUri = None \/ videoDataUri = None \/ photoFile = None \/ videoFile = None
       THEN /\ error' = "Please upload both a photo and a video."
            /\ toasts' = toasts \cup {"Missing Files"}
            /\ UNCHANGED <<result, loading, extractionProgress, hpc, hInput>>
       ELSE /\ loading' = TRUE
            /\ error' = None
            /\ result' = Undefined
            /\ extractionProgress' = NoProgress
            /\ toasts' = IF fileSize(videoFile) > maxSize THEN {"File Too Large"} ELSE {}
            /\ hInput' = Some([photoDataUri |-> photoDataUri, videoDataUri |-> videoDataUri])
            /\ hpc' = "awaitingFlow"
    /\ UNCHANGED <<pageFiles, llmResult, pageElement>>
    /\ UNCHANGED flowVars

\* a button that stays enabled while an analysis runs
handleReIdentify_enabledWhileLoading ==
    /\ ~(photoDataUri = None \/ videoDataUri = None \/ videoFile = None)
    /\ clicks < MaxRuns
    /\ handleReIdentifyCalled

\* a click on the button, which is disabled while loading or without photo,
\* video reference and video file
handleReIdentify ==
    /\ ~(loading \/ photoDataUri = None \/ videoDataUri = None \/ videoFile = None)
    /\ clicks < MaxRuns
    /\ handleReIdentifyCalled

\* reIdentifyPerson answers: handleReIdentify goes on, into extractSnapshots
\* when the person is present with identifications
flowReturns ==
    /\ hpc = "awaitingFlow"
    /\ \E v \in ServerVerdicts(dataUriOf(Get(hInput).videoDataUri)) :
          /\ IF v.isPresent /\ Len(Get(v.identifications)) > 0
             THEN LET st == [St EXCEPT !.toasts = @ \cup {"Analysis Complete"}]
                      ids == Get(v.identifications)
                  IN  IF videoRefMounted
                      THEN commit(extractSnapshotsCall(st, ids, canvas), v, TRUE)
                      ELSE commit(extractSnapshotsSkipped(st, ids), v, TRUE)
             ELSE /\ publish(v, FALSE, <<>>, toasts)
                  /\ UNCHANGED <<video, videoRef, ex, timers>>
    /\ UNCHANGED <<pageFiles, clicks, canvas>>
    /\ UNCHANGED flowVars

\* what the awaited call of the server action can reject with
Rejections == ThrownValues \cup {ErrorValue("Failed to fetch")}

\* `Processing failed: ${err.message || 'Unknown error'}`: a thrown value that
\* is no Error has no message
errorMessage(err) ==
    "Processing failed: "
        \o (IF err.isError /\ err.message # "" THEN err.message ELSE "Unknown error")

\* the call of the server action rejects: the catch and finally blocks
flowRejects ==
    /\ hpc = "awaitingFlow"
    /\ \E err \in Rejections : error' = errorMessage(err)
    /\ toasts' = toasts \cup {"Processing Error"}
    /\ result' = Undefined
    /\ loading' = FALSE
    /\ extractionProgress' = NoProgress
    /\ hpc' = "idle"
    /\ hInput' = Undefined
    /\ UNCHANGED <<pageFiles, llmResult, clicks, pageElement>>
    /\ UNCHANGED flowVars

----------------------------------------------------------------------------
(* Events of the hidden video element and timers *)

\* the verdict handleReIdentify holds while it awaits extractSnapshots
awaitedVerdict == IF hpc = "extracting" THEN Get(llmResult) ELSE degradedVerdict(ErrorValue(""))

withoutListeners(st, gone) == [st EXCEPT !.video.listeners = @ \ gone]

ofType(type) == { l \in video.listeners : l.type = type }

\* the body of seekEventHandler and of its retry once the dimensions are
\* known: draw, encode, resolve; a throwing toDataURL resolves 'failed'
drawFrame(st, enc) ==
    LET id == st.ex.identifications[st.ex.i]
    IN  resolveFrame(st, IF enc = "throw" THEN FailedSnapshot(id)
                         ELSE ExtractedSnapshot(id, enc), canvas)

currentFrame(l) == ex.pc = "frame" /\ l.run = ex.run /\ l.frame = ex.i

\* an element loads: readyState rises by one, loadedmetadata fires on
\* reaching HAVE_METADATA and canplay on reaching HAVE_FUTURE_DATA; an element
\* mounted while extractSnapshots holds another has no listeners
mediaProgress ==
    \E element \in (IF ElementAlive THEN {"video"} ELSE {})
                    \cup (IF IsDefined(videoRef) THEN {"videoRef"} ELSE {}) :
       IF element = "video"
       THEN /\ ~video.broken
            /\ video.readyState < HAVE_FUTURE_DATA
            /\ LET rs == video.readyState + 1
                   fired == IF rs = HAVE_METADATA THEN ofType("loadedmetadata")
                            ELSE IF rs = HAVE_FUTURE_DATA THEN ofType("canplay")
                            ELSE {}
                   st0 == withoutListeners([St EXCEPT !.video.readyState = rs], fired)
               IN  IF rs = HAVE_METADATA /\ ex.pc = "waitMeta"
                      /\ Listener("loadedmetadata", ex.run, 0) \in fired
                   THEN commit(afterMetadata(
                                  withoutListeners([st0 EXCEPT !.timers = @ \ {Timer("meta", ex.run, 0)}],
                                                   {Listener("error", ex.run, 0)}), canvas),
                               awaitedVerdict, hpc = "extracting")
                   ELSE IF rs = HAVE_FUTURE_DATA /\ ex.pc = "waitSeekable"
                           /\ Listener("canplay", ex.run, 0) \in fired
                   THEN commit(runFrames([st0 EXCEPT !.timers = @ \ {Timer("seekable", ex.run, 0)}],
                                         canvas),
                               awaitedVerdict, hpc = "extracting")
                   ELSE commit(st0, awaitedVerdict, FALSE)
            /\ UNCHANGED <<pageFiles, clicks, canvas>>
            /\ UNCHANGED flowVars
       ELSE /\ ~Get(videoRef).broken
            /\ Get(videoRef).readyState < HAVE_FUTURE_DATA
            /\ videoRef' = Some([Get(videoRef) EXCEPT !.readyState = @ + 1])
            /\ UNCHANGED <<pageFiles, pageRun, canvas, video, ex, timers>>
            /\ UNCHANGED flowVars

\* an element fires error: the metadata wait rejects, a pending extractFrame
\* resolves 'failed'; an element mounted while extractSnapshots holds another
\* has no listeners
mediaError ==
    \E element \in (IF ElementAlive THEN {"video"} ELSE {})
                    \cup (IF IsDefined(videoRef) THEN {"videoRef"} ELSE {}) :
       IF element = "video"
       THEN /\ ~video.broken
            /\ LET fired == ofType("error")
                   st0 == withoutListeners([St EXCEPT !.video.broken = TRUE,
                                                      !.video.seeking = FALSE], fired)
               IN  IF ex.pc = "waitMeta" /\ Listener("error", ex.run, 0) \in fired
                   THEN commit(metadataFailed(
                                  withoutListeners([st0 EXCEPT !.timers = @ \ {Timer("meta", ex.run, 0)}],
                                                   {Listener("loadedmetadata", ex.run, 0)}),
                                  canvas),
                               awaitedVerdict, hpc = "extracting")
                   ELSE IF ex.pc = "frame" /\ ~ex.resolved
                           /\ Listener("error", ex.run, ex.i) \in fired
                   THEN commit(resolveFrame(st0, FailedSnapshot(ex.identifications[ex.i]), canvas),
                               awaitedVerdict, hpc = "extracting")
                   ELSE commit(st0, awaitedVerdict, FALSE)
            /\ UNCHANGED <<pageFiles, clicks, canvas>>
            /\ UNCHANGED flowVars
       ELSE /\ ~Get(videoRef).broken
            /\ videoRef' = Some([Get(videoRef) EXCEPT !.broken = TRUE, !.seeking = FALSE])
            /\ UNCHANGED <<pageFiles, pageRun, canvas, video, ex, timers>>
            /\ UNCHANGED flowVars

\* the seek ends: seekEventHandler draws the frame, or arms the 150 ms retry
\* when the element reports no dimensions
seeked ==
    /\ ElementAlive
    /\ video.seeking
    /\ ~video.broken
    /\ video.readyState >= HAVE_METADATA
    /\ LET fired == ofType("seeked")
           st0 == withoutListeners([St EXCEPT !.video.seeking = FALSE], fired)
       IN  IF ex.pc = "frame" /\ ~ex.resolved
              /\ Listener("seeked", ex.run, ex.i) \in fired
           THEN \E dimensions \in BOOLEAN :
                   IF dimensions
                   THEN \E enc \in EncodedFrames \cup {"throw"} :
                           commit(drawFrame(st0, enc), awaitedVerdict, hpc = "extracting")
                   ELSE commit([st0 EXCEPT !.timers = @ \cup {Timer("retry", ex.run, ex.i)}],
                               awaitedVerdict, FALSE)
           ELSE commit(st0, awaitedVerdict, FALSE)
    /\ UNCHANGED <<pageFiles, clicks, canvas>>
    /\ UNCHANGED flowVars

\* a retry that, still without dimensions, schedules itself again
retryDraw_retryingAgain(st, dimensions, enc) ==
    IF dimensions
    THEN drawFrame(st, enc)
    ELSE [st EXCEPT !.timers = @ \cup {Timer("retry", st.ex.run, st.ex.i)}]

\* the body of the retry callback for a frame not yet resolved: with
\* dimensions it draws and encodes as seekEventHandler does, without them it
\* resolves 'failed'
retryDraw(st, dimensions, enc) ==
    IF dimensions
    THEN drawFrame(st, enc)
    ELSE resolveFrame(st, FailedSnapshot(st.ex.identifications[st.ex.i]), canvas)

\* the 150 ms retry of seekEventHandler
retryTimeout ==
    /\ \E t \in timers :
          /\ t.kind = "retry"
          /\ LET st0 == [St EXCEPT !.timers = @ \ {t}]
             IN  IF currentFrame(t) /\ ~ex.resolved
                 THEN \E dimensions \in BOOLEAN :
                         IF dimensions
                         THEN \E enc \in EncodedFrames \cup {"throw"} :
                                 commit(retryDraw(st0, TRUE, enc), awaitedVerdict,
                                        hpc = "extracting")
                         ELSE commit(retryDraw(st0, FALSE, "throw"), awaitedVerdict,
                                     hpc = "extracting")
                 ELSE commit(st0, awaitedVerdict, FALSE)
    /\ UNCHANGED <<pageFiles, clicks, canvas>>
    /\ UNCHANGED flowVars

\* the 3 s timeout of extractFrame
seekTimeout ==
    /\ \E t \in timers :
          /\ t.kind = "seek"
          /\ LET st0 == [St EXCEPT !.timers = @ \ {t}]
             IN  IF currentFrame(t) /\ ~ex.resolved
                 THEN commit(resolveFrame(
                                withoutListeners(st0, {Listener("seeked", t.run, t.frame),
                                                       Listener("error", t.run, t.frame)}),
                                FailedSnapshot(ex.identifications[ex.i]), canvas),
                             awaitedVerdict, hpc = "extracting")
                 ELSE commit(st0, awaitedVerdict, FALSE)
    /\ UNCHANGED <<pageFiles, clicks, canvas>>
    /\ UNCHANGED flowVars

\* the 5 s timeout of the metadata wait
metadataTimeout ==
    /\ \E t \in timers :
          /\ t.kind = "meta"
          /\ LET st0 == withoutListeners([St EXCEPT !.timers = @ \ {t}],
                                         {Listener("loadedmetadata", t.run, 0),
                                          Listener("error", t.run, 0)})
             IN  IF ex.pc = "waitMeta" /\ t.run = ex.run
                 THEN IF video.readyState < HAVE_METADATA
                      THEN commit(metadataFailed(st0, canvas), awaitedVerdict, hpc = "extracting")
                      ELSE commit(afterMetadata(st0, canvas), awaitedVerdict, hpc = "extracting")
                 ELSE commit(st0, awaitedVerdict, FALSE)
    /\ UNCHANGED <<pageFiles, clicks, canvas>>
    /\ UNCHANGED flowVars

\* the 5 s timeout of the canplay wait
seekableTimeout ==
    /\ \E t \in timers :
          /\ t.kind = "seekable"
          /\ LET st0 == withoutListeners([St EXCEPT !.timers = @ \ {t}],
                                         {Listener("canplay", t.run, 0)})
             IN  IF ex.pc = "waitSeekable" /\ t.run = ex.run
                 THEN commit(runFrames(st0, canvas), awaitedVerdict, hpc = "extracting")
                 ELSE commit(st0, awaitedVerdict, FALSE)
    /\ UNCHANGED <<pageFiles, clicks, canvas>>
    /\ UNCHANGED flowVars

ClientNext ==
    \/ onDropPhoto
    \/ photoReaderOnload
    \/ photoReaderOnerror
    \/ onDropVideo
    \/ videoReaderOnload
    \/ videoReaderOnerror
    \/ onDropRejected
    \/ handleReIdentify
    \/ flowReturns
    \/ flowRejects
    \/ mediaProgress
    \/ mediaError
    \/ seeked
    \/ retryTimeout
    \/ seekTimeout
    \/ metadataTimeout
    \/ seekableTimeout

----------------------------------------------------------------------------
(* Specifications *)

Init == FlowInit /\ ClientInit

\* the server request on its own
Next == FlowNext

Spec == Init /\ [][Next]_vars

\* the page on its own, the server action answering with ServerVerdicts
SpecClient == Init /\ [][ClientNext]_vars

\* the page after a click on the button, with a photo and a video read, all
\* drops made, and the hidden element mounted or, its last file having failed
\* to read, not mounted: the states in which handleReIdentify awaits the
\* server action
ExtractInit ==
    /\ FlowInit
    /\ photoFile \in PhotoFiles
    /\ photoDataUri = photoFile
    /\ videoFile = "a.mp4"
    /\ videoDataUri = videoFile
    /\ videoSrc \in {videoFile, None}
    /\ result = Undefined
    /\ loading = TRUE
    /\ extractionProgress = NoProgress
    /\ error = None
    /\ toasts = {}
    /\ reads = EmptyBag
    /\ drops = MaxDrops
    /\ clicks = 1
    /\ hpc = "awaitingFlow"
    /\ hInput = Some([photoDataUri |-> photoDataUri, videoDataUri |-> videoDataUri])
    /\ llmResult = Undefined
    /\ canvas \in {"ok", "noContext"}
    /\ video = NewVideoElement
    /\ videoRef = Undefined
    /\ ex = IdleExtraction
    /\ timers = {}

\* what follows the click when nothing more is dropped
ExtractNext ==
    \/ flowReturns
    \/ flowRejects
    \/ mediaProgress
    \/ mediaError
    \/ seeked
    \/ retryTimeout
    \/ seekTimeout
    \/ metadataTimeout
    \/ seekableTimeout

\* one analysis from the click to the published result
SpecExtract == ExtractInit /\ [][ExtractNext]_vars

\* a result left on the page by an earlier analysis
EarlierResult ==
    Some([isPresent |-> FALSE, confidence |-> Undefined, reason |-> "No match",
          identifications |-> Some(<<>>), snapshots |-> <<>>])

\* the idle page with any of the files chosen, read or missing
SubmitInit ==
    /\ FlowInit
    /\ photoFile \in PhotoFiles \cup {None}
    /\ photoDataUri \in {photoFile, None}
    /\ videoFile \in {"a.mp4", None} \cup OversizedFiles
    /\ videoDataUri \in {videoFile, None}
    /\ videoSrc = videoFile
    /\ result \in {Undefined, EarlierResult}
    /\ loading = FALSE
    /\ extractionProgress = NoProgress
    /\ error = None
    /\ toasts = {}
    /\ reads = EmptyBag
    /\ drops = MaxDrops
    /\ clicks = 0
    /\ hpc = "idle"
    /\ hInput = Undefined
    /\ llmResult = Undefined
    /\ canvas \in {"ok", "noContext"}
    /\ video = NewVideoElement
    /\ videoRef = Undefined
    /\ ex = IdleExtraction
    /\ timers = {}

\* handleReIdentify called on the idle page, whatever the button shows
submit ==
    /\ ~loading
    /\ clicks < MaxRuns
    /\ handleReIdentifyCalled

SubmitNext ==
    \/ submit
    \/ flowReturns
    \/ flowRejects
    \/ mediaProgress
    \/ mediaError
    \/ seeked
    \/ retryTimeout
    \/ seekTimeout
    \/ metadataTimeout
    \/ seekableTimeout

\* handleReIdentify as a function of the page state: calls of it on the idle
\* page, files missing or not, and the analyses they start
SpecSubmit == SubmitInit /\ [][SubmitNext]_vars

\* SpecExtract with every armed setTimeout callback run by the event loop in
\* the end; the element owes no event
SpecExtractFair ==
    /\ SpecExtract
    /\ WF_vars(seekTimeout)
    /\ WF_vars(retryTimeout)
    /\ WF_vars(metadataTimeout)
    /\ WF_vars(seekableTimeout)

----------------------------------------------------------------------------
(* Properties of the server request *)

\* the list the model supplied and the list of the verdict, when both exist
modelIds == Get(Get(Get(llmResponse)).identifications)
verdictIds == Get(verdict.identifications)

Returned == fpc = "returned"
ReturnedModelList ==
    /\ fpc = "returned"
    /\ flowOutcome.kind = "return"
    /\ IsDefined(Get(Get(llmResponse)).identifications)

\* size of the payload behind the header separator, of the whole string
\* when it has no separator
PayloadLength(uri) ==
    IF uri.comma = -1 THEN uri.length ELSE uri.length - uri.comma - 1

BoxWellFormed(bb) ==
    /\ 0 <= bb.xMin /\ bb.xMin < bb.xMax /\ bb.xMax <= CoordScale
    /\ 0 <= bb.yMin /\ bb.yMin < bb.yMax /\ bb.yMax <= CoordScale

WithinDuration(t, uri) ==
    0 <= t /\ t <= Min(MaxSeconds * TicksPerSecond,
                       Max(MinSeconds * TicksPerSecond, PayloadLength(uri) * Base64Num))

CountOf(s, P(_)) == Cardinality({ i \in DOMAIN s : P(s[i]) })

\* C1: in every verdict reIdentifyPerson returns, isPresent false implies
\* that identifications is the empty sequence.
C1_AbsentHasNoIdentifications ==
    Returned => (~verdict.isPresent => verdict.identifications = Some(<<>>))

\* C2: every identification of a returned verdict has
\* 0 <= timestamp <= videoDuration, the estimate made for that request.
C2_TimestampsWithinDuration ==
    Returned =>
        /\ videoDuration = estimateVideoDuration(input.videoDataUri)
        /\ \A i \in DOMAIN verdictIds :
              /\ 0 <= verdictIds[i].timestamp
              /\ verdictIds[i].timestamp <= videoDuration
              /\ WithinDuration(verdictIds[i].timestamp, input.videoDataUri)

\* a request whose model list lost an out-of-range entry and kept another
C2_Witness ==
    /\ ReturnedModelList
    /\ Len(verdictIds) >= 1
    /\ Len(verdictIds) < Len(modelIds)

\* C3: every bounding box of a returned verdict has 0 <= xMin < xMax <= 1 and
\* 0 <= yMin < yMax <= 1, and is a box the model supplied for that timestamp:
\* a box violating the constraint is absent, never rewritten into a valid one.
C3_BoxesValidOrAbsent ==
    /\ Returned =>
          \A i \in DOMAIN verdictIds :
              IsDefined(verdictIds[i].boundingBox) =>
                  BoxWellFormed(Get(verdictIds[i].boundingBox))
    /\ ReturnedModelList =>
          /\ \A i \in DOMAIN verdictIds :
                IsDefined(verdictIds[i].boundingBox) =>
                    \E j \in DOMAIN modelIds : modelIds[j] = verdictIds[i]
          /\ \A t \in ModelTimestamps :
                LET KeptBox(id) == id.timestamp = t /\ IsDefined(id.boundingBox)
                    GoodBox(id) == /\ id.timestamp = t
                                   /\ WithinDuration(t, input.videoDataUri)
                                   /\ IsDefined(id.boundingBox)
                                   /\ BoxWellFormed(Get(id.boundingBox))
                IN  CountOf(verdictIds, KeptBox) = CountOf(modelIds, GoodBox)

\* a verdict that kept a box while the model had also supplied an invalid one
\* for a timestamp in range
C3_Witness ==
    /\ ReturnedModelList
    /\ \E i \in DOMAIN verdictIds : IsDefined(verdictIds[i].boundingBox)
    /\ \E j \in DOMAIN modelIds :
          /\ WithinDuration(modelIds[j].timestamp, input.videoDataUri)
          /\ IsDefined(modelIds[j].boundingBox)
          /\ ~BoxWellFormed(Get(modelIds[j].boundingBox))

----------------------------------------------------------------------------
(* Properties of the page *)

\* the published result went through the snapshot branch of handleReIdentify
ExtractionAttempted(r) == r.isPresent /\ Len(Get(r.identifications)) > 0

publishedIds == Get(Get(result).identifications)
publishedSnapshots == Get(result).snapshots

\* snaps are the snapshots of the first identifications of ids, in order
SnapshotsFollow(snaps, ids) ==
    /\ Len(snaps) <= Len(ids)
    /\ \A k \in DOMAIN snaps :
          /\ snaps[k].timestamp = ids[k].timestamp
          /\ snaps[k].boundingBox = ids[k].boundingBox
          /\ snaps[k].generationStatus \in {"extracted", "failed"}

\* C4 as stated: extractSnapshots called with N identifications always returns
\* N snapshots, so that a published result of the snapshot branch holds as
\* many snapshots as identifications.
C4_AlwaysOneSnapshotPerIdentification ==
    (IsDefined(result) /\ ExtractionAttempted(Get(result))) =>
        Len(publishedSnapshots) = Len(publishedIds)

\* C4, as the code has it: whenever handleReIdentify publishes a result of the
\* snapshot branch, extractSnapshots has returned one snapshot per
\* identification if the hidden video element was mounted when it was called
\* (also when the metadata wait failed or timed out), and no snapshot at all
\* if the element was not mounted.
C4_OneSnapshotPerIdentificationWhenMounted ==
    [][ ( /\ hpc # "idle"
          /\ hpc' = "idle"
          /\ IsDefined(result')
          /\ ExtractionAttempted(Get(result')) ) =>
            Len(Get(result').snapshots) =
                IF hpc = "extracting" \/ videoRefMounted
                THEN Len(Get(Get(result').identifications))
                ELSE 0 ]_vars

\* a result with as many snapshots as identifications, published after the
\* metadata wait of its extraction had failed
C4_Witness ==
    /\ IsDefined(result)
    /\ ExtractionAttempted(Get(result))
    /\ "Snapshot Error" \in toasts
    /\ Len(publishedIds) = MaxFrames
    /\ Len(publishedSnapshots) = MaxFrames

\* C5: the i-th snapshot, while extractSnapshots collects them and in the
\* published result, carries the timestamp and the box of the i-th
\* identification, and its status is 'extracted' or 'failed'.
C5_SnapshotsFollowIdentifications ==
    /\ SnapshotsFollow(ex.snapshots, ex.identifications)
    /\ IsDefined(result) => SnapshotsFollow(publishedSnapshots, publishedIds)

\* a published result of two snapshots, the first extracted with its box,
\* the second failed, at different timestamps
C5_Witness ==
    /\ IsDefined(result)
    /\ Len(publishedSnapshots) = 2
    /\ publishedSnapshots[1].generationStatus = "extracted"
    /\ IsDefined(publishedSnapshots[1].boundingBox)
    /\ publishedSnapshots[2].generationStatus = "failed"
    /\ publishedSnapshots[1].timestamp < publishedSnapshots[2].timestamp

----------------------------------------------------------------------------
(* Properties of the server request, continued *)

\* C6: reIdentifyPerson never throws: every settled flow is answered by a
\* return, and a flow that threw is answered by isPresent = false, no
\* identifications and a reason that embeds the message of the Error
\* ("Unknown error" for a thrown value that is no Error).
C6_EntryPointNeverThrows ==
    /\ fpc = "settled" => ENABLED (entryReturns \/ entryCatches)
    /\ (Returned /\ flowOutcome.kind = "throw") =>
          /\ verdict.isPresent = FALSE
          /\ verdict.identifications = Some(<<>>)
          /\ verdict.reason = "An error occurred during processing: " \o
                (IF flowOutcome.value.isError THEN flowOutcome.value.message
                                              ELSE "Unknown error")
          /\ flowOutcome.value.isError => includes(verdict.reason, flowOutcome.value.message)

\* a rejected model call answered by a verdict
C6_Witness ==
    /\ Returned
    /\ flowOutcome.kind = "throw"
    /\ ~IsDefined(llmResponse)
    /\ flowOutcome.value.isError
    /\ flowOutcome.value.message = "fetch failed"

\* C7: when the model adapter returns no output the flow throws, and the entry
\* point returns isPresent = false, a reason containing "error" and no
\* identifications.
C7_NoOutputFailsRequest ==
    (fpc \in {"settled", "returned"} /\ llmResponse = Some(Undefined)) =>
        /\ flowOutcome.kind = "throw"
        /\ flowOutcome.value.isError
        /\ Returned =>
              /\ verdict.isPresent = FALSE
              /\ includes(verdict.reason, "error")
              /\ verdict.identifications = Some(<<>>)

\* a request answered after the model adapter delivered no output
C7_Witness ==
    Returned /\ llmResponse = Some(Undefined)

\* C8: when the model's verdict has no identifications field, the flow returns
\* it with identifications [] and the other fields as supplied; the returned
\* field is never undefined.
C8_MissingListBecomesEmpty ==
    /\ (fpc \in {"settled", "returned"} /\ flowOutcome.kind = "return") =>
          /\ IsDefined(flowOutcome.value.identifications)
          /\ ~IsDefined(Get(Get(llmResponse)).identifications) =>
                flowOutcome.value = [Get(Get(llmResponse)) EXCEPT !.identifications = Some(<<>>)]
    /\ Returned =>
          /\ IsDefined(verdict.identifications)
          /\ flowOutcome.kind = "return" => verdict = flowOutcome.value

\* Scenario B: isPresent false, reason "No match", identifications undefined
C8_Witness ==
    /\ Returned
    /\ flowOutcome.kind = "return"
    /\ Get(Get(llmResponse)) =
          [isPresent |-> FALSE, confidence |-> Undefined, reason |-> "No match",
           identifications |-> Undefined]

\* C9: for every video reference the Duration Estimator returns
\* min(120, max(1, decodedBytes / (0.5*1024*1024))) seconds, a value in
\* [1, 120], and exactly 1 for a payload of 0 bytes.
C9_DurationClamped ==
    fpc # "idle" =>
        /\ videoDuration = Min(MaxSeconds * TicksPerSecond,
                               Max(MinSeconds * TicksPerSecond,
                                   PayloadLength(input.videoDataUri) * Base64Num))
        /\ MinSeconds * TicksPerSecond <= videoDuration
        /\ videoDuration <= MaxSeconds * TicksPerSecond
        /\ PayloadLength(input.videoDataUri) = 0 => videoDuration = MinSeconds * TicksPerSecond

\* an estimate strictly between the two bounds, for a reference with a header
C9_Witness ==
    /\ fpc # "idle"
    /\ input.videoDataUri.comma >= 0
    /\ videoDuration > MinSeconds * TicksPerSecond
    /\ videoDuration < MaxSeconds * TicksPerSecond

\* C10: box validation changes neither the number of identifications nor any
\* timestamp: the verdict holds exactly the model's identifications whose
\* timestamp is in range, and one of them with an invalid box is kept with its
\* timestamp and without box.
C10_InvalidBoxKeepsTimestamp ==
    ReturnedModelList =>
        /\ \A t \in ModelTimestamps :
              LET Kept(id) == id.timestamp = t
                  InRange(id) == id.timestamp = t /\ WithinDuration(t, input.videoDataUri)
              IN  CountOf(verdictIds, Kept) = CountOf(modelIds, InRange)
        /\ \A j \in DOMAIN modelIds :
              ( /\ WithinDuration(modelIds[j].timestamp, input.videoDataUri)
                /\ IsDefined(modelIds[j].boundingBox)
                /\ ~BoxWellFormed(Get(modelIds[j].boundingBox)) ) =>
                  \E i \in DOMAIN verdictIds :
                      verdictIds[i] = Identification(modelIds[j].timestamp, Undefined)

\* a verdict holding an identification whose invalid box was removed
C10_Witness ==
    /\ ReturnedModelList
    /\ \E j \in DOMAIN modelIds :
          /\ modelIds[j].timestamp = MinSeconds * TicksPerSecond
          /\ IsDefined(modelIds[j].boundingBox)
          /\ ~BoxWellFormed(Get(modelIds[j].boundingBox))
    /\ \E i \in DOMAIN verdictIds :
          verdictIds[i] = Identification(MinSeconds * TicksPerSecond, Undefined)

\* C11: in every verdict reIdentifyPerson returns, the identifications are in
\* ascending order of timestamp, whatever the order the model gave them in.
C11_IdentificationsSorted ==
    Returned =>
        \A i, j \in DOMAIN verdictIds :
            i < j => verdictIds[i].timestamp <= verdictIds[j].timestamp

\* the model listed a later timestamp before an earlier one, both within the
\* duration, and the verdict holds both
C11_Witness ==
    /\ ReturnedModelList
    /\ Len(modelIds) = 2
    /\ modelIds[1].timestamp > modelIds[2].timestamp
    /\ Len(verdictIds) = 2
    /\ verdictIds[1].timestamp < verdictIds[2].timestamp

\* C12: in every verdict reIdentifyPerson returns, no two identifications
\* have the same timestamp.
C12_TimestampsDeduplicated ==
    Returned =>
        \A i, j \in DOMAIN verdictIds :
            i # j => verdictIds[i].timestamp # verdictIds[j].timestamp

----------------------------------------------------------------------------
(* Properties of the frame extraction *)

\* a failed snapshot shows the placeholder
PlaceholderIfFailed(snap) ==
    snap.generationStatus = "failed" => snap.dataUri = placeholderDataUri

\* C13: every snapshot with status 'failed', among those being collected and
\* in the published result, carries the placeholder image; and whenever a
\* frame is pending, a toDataURL that throws in seekEventHandler gives that
\* frame a snapshot with status 'failed' and the placeholder image.
C13_FailedCarriesPlaceholder ==
    /\ \A k \in DOMAIN ex.snapshots : PlaceholderIfFailed(ex.snapshots[k])
    /\ IsDefined(result) =>
          \A k \in DOMAIN publishedSnapshots : PlaceholderIfFailed(publishedSnapshots[k])
    /\ (ex.pc = "frame" /\ ~ex.resolved) =>
          LET snap == drawFrame(St, "throw").ex.snapshots[ex.i]
          IN  /\ snap.generationStatus = "failed"
              /\ snap.dataUri = placeholderDataUri
              /\ snap.dataUri # ""

\* the second frame is pending behind a first one that failed
C13_Witness ==
    /\ ex.pc = "frame"
    /\ ~ex.resolved
    /\ ex.i = 2
    /\ ex.snapshots[1].generationStatus = "failed"
    /\ ex.snapshots[1].dataUri = placeholderDataUri

\* extractFrame of identification k has been called and has not resolved
FramePending(k) == ex.pc = "frame" /\ ex.i = k /\ ~ex.resolved

\* the snapshots extractSnapshots holds after a step, published or not
snapshotsAfter == IF ex'.pc = "idle" THEN Get(result').snapshots ELSE ex'.snapshots

\* C14: with timers firing, every pending extractFrame resolves in the end,
\* whether or not the element ever fires seeked; and the 3 s timeout, when it
\* finds the frame pending, resolves it 'failed' with the placeholder image.
C14_ExtractFrameResolves ==
    /\ \A k \in 1..MaxFrames : FramePending(k) ~> ~FramePending(k)
    /\ [][ \A k \in 1..MaxFrames :
              (FramePending(k) /\ seekTimeout) =>
                  snapshotsAfter[k] = FailedSnapshot(ex.identifications[k]) ]_vars

\* a frame pending with its seek unanswered and its timeout armed, after the
\* first frame of the batch was resolved 'failed'
C14_Witness ==
    /\ FramePending(2)
    /\ video.seeking
    /\ Timer("seek", ex.run, 2) \in timers
    /\ Len(ex.snapshots) = 1
    /\ ex.snapshots[1] = FailedSnapshot(ex.identifications[1])

----------------------------------------------------------------------------
(* Properties of extractSnapshots as a whole *)

\* muted and paused of the element as they were before the running call of
\* extractSnapshots, or as they are when no call is running
elementBefore ==
    IF ex.pc = "idle"
    THEN [muted |-> video.muted, paused |-> video.paused]
    ELSE [muted |-> ex.originalMuted, paused |-> ex.originalPaused]

\* extractSnapshots returns in this step, to a handleReIdentify that publishes
extractSnapshotsReturns ==
    /\ hpc # "idle"
    /\ hpc' = "idle"
    /\ ex.pc # "idle" \/ ex'.run > ex.run

FailedAt(i) ==
    /\ ex.pc # "idle"
    /\ Len(ex.snapshots) >= i
    /\ ex.snapshots[i].generationStatus = "failed"

\* the extraction has returned one snapshot per identification, the i-th failed
BatchCompleteWithFailed(i) ==
    /\ ex.pc = "idle"
    /\ IsDefined(result)
    /\ IsDefined(Get(result).identifications)
    /\ Len(publishedSnapshots) = Len(publishedIds)
    /\ SnapshotsFollow(publishedSnapshots, publishedIds)
    /\ i <= Len(publishedSnapshots)
    /\ publishedSnapshots[i].generationStatus = "failed"

\* C16: a failed frame does not end the batch.  The step that resolves frame
\* i 'failed' with identifications left seeks the element to the timestamp of
\* identification i+1, and, timers firing, an extraction holding a failed
\* snapshot returns one snapshot for every identification.
C16_FailureDoesNotAbort ==
    /\ \A i \in 1..MaxFrames : FailedAt(i) ~> BatchCompleteWithFailed(i)
    /\ [][ \A i \in 1..MaxFrames :
              ( /\ FramePending(i)
                /\ i < Len(ex.identifications)
                /\ Len(snapshotsAfter) >= i
                /\ snapshotsAfter[i].generationStatus = "failed" ) =>
                  /\ ex'.pc = "frame"
                  /\ ex'.i = i + 1
                  /\ ~ex'.resolved
                  /\ video'.seeking
                  /\ video'.currentTime = ex.identifications[i + 1].timestamp ]_vars

\* a published result whose first snapshot failed and whose second was extracted
C16_Witness ==
    /\ hpc = "idle"
    /\ IsDefined(result)
    /\ Len(publishedSnapshots) = MaxFrames
    /\ publishedSnapshots[1].generationStatus = "failed"
    /\ publishedSnapshots[MaxFrames].generationStatus = "extracted"

\* the timers of extractFrame calls that have not resolved
frameTimers == { t \in timers : t.kind \in {"seek", "retry"} }

\* C17: the loop seeks one frame at a time.  Every timer of an unresolved
\* extractFrame belongs to the one frame the loop awaits, which has the
\* snapshots of all frames before it; and a step that seeks for frame k, arming
\* the timeout of k, finds the snapshots of frames 1..k-1 collected and leaves
\* no other extractFrame unresolved.
C17_OneFrameAtATime ==
    /\ [](\A t \in frameTimers : currentFrame(t) /\ ~ex.resolved)
    /\ [](ex.pc = "frame" => Len(ex.snapshots) = ex.i - 1)
    /\ [][ \A t \in timers' \ timers :
              t.kind = "seek" =>
                 /\ ex'.pc = "frame"
                 /\ ex'.i = t.frame
                 /\ video'.currentTime = ex'.identifications[t.frame].timestamp
                 /\ Len(ex'.snapshots) = t.frame - 1
                 /\ { u \in timers' : u.kind \in {"seek", "retry"} } = {t} ]_vars

\* the second frame is sought, its timeout the only one armed, with the
\* first frame extracted
C17_Witness ==
    /\ FramePending(MaxFrames)
    /\ frameTimers = {Timer("seek", ex.run, MaxFrames)}
    /\ video.currentTime = ex.identifications[MaxFrames].timestamp
    /\ Len(ex.snapshots) = MaxFrames - 1
    /\ ex.snapshots[1].generationStatus = "extracted"

\* C18: while the loop seeks, from the first seek of a batch to the
\* resolution of the last, the element is muted, however the metadata wait
\* ended; the element of the page is muted before every call.
C18_MutedAtEverySeek ==
    /\ ex.pc = "frame" => video.muted
    /\ ExtractionRunning => ex.originalMuted

\* the second seek of a batch is under way after the metadata wait failed
C18_Witness ==
    /\ ex.pc = "frame"
    /\ "Snapshot Error" \in toasts
    /\ ex.i = 2
    /\ video.seeking
    /\ Timer("seek", ex.run, 2) \in timers
    /\ video.muted

\* extractSnapshots waits for the element before its first seek
WaitingForElement == ex.pc \in {"waitMeta", "waitSeekable"}

\* extractSnapshots is past its waits: in the loop, or returned with one
\* snapshot per identification
PastTheWaits ==
    \/ ex.pc = "frame"
    \/ /\ ex.pc = "idle"
       /\ IsDefined(result)
       /\ IsDefined(Get(result).identifications)
       /\ Len(publishedIds) > 0
       /\ Len(publishedSnapshots) = Len(publishedIds)

\* C19: each wait before the first seek has its timeout armed; a timeout that
\* elapses during its wait moves extractSnapshots on, to the next wait or to
\* the frames, with no snapshot of the batch given up; and, timers firing, a
\* waiting extractSnapshots reaches the frames whatever the element does.
C19_WaitsAreBounded ==
    /\ [](ex.pc = "waitMeta" => Timer("meta", ex.run, 0) \in timers)
    /\ [](ex.pc = "waitSeekable" => Timer("seekable", ex.run, 0) \in timers)
    /\ [][ /\ (ex.pc = "waitMeta" /\ metadataTimeout) =>
                 (ex'.pc = "waitSeekable" \/ PastTheWaits')
           /\ (ex.pc = "waitSeekable" /\ seekableTimeout) => PastTheWaits' ]_vars
    /\ WaitingForElement ~> PastTheWaits

\* the first frame is sought on an element that has its metadata and never
\* signalled that it can play: the canplay wait timed out
C19_Witness ==
    /\ FramePending(1)
    /\ video.readyState = HAVE_METADATA
    /\ ~video.broken
    /\ ~("Snapshot Error" \in toasts)

\* C20 as stated: once the metadata wait has failed, by the element's error
\* event or by the timeout below HAVE_METADATA, extractSnapshots seeks no frame
\* and what it returns is the empty list.
C20_MetadataFailureAborts ==
    ("Snapshot Error" \in toasts) =>
        /\ ex.pc # "frame"
        /\ ex.snapshots = <<>>
        /\ IsDefined(result) => publishedSnapshots = <<>>

----------------------------------------------------------------------------
(* Properties of handleReIdentify *)

\* this step assigns currentTime in an extractFrame: its timeout is armed
seekIssued == \E t \in timers' \ timers : t.kind = "seek"

\* C21: the element is sought only while handleReIdentify holds a verdict
\* that reports the person present with a non-empty list, and before any
\* result of the run is published; the step that publishes a verdict without
\* such a list leaves the element, the extraction and the timers alone; and a
\* published result finds extractSnapshots returned, no extractFrame pending.
C21_ExtractionFollowsVerdict ==
    /\ [][ seekIssued =>
              /\ hpc' = "extracting"
              /\ IsDefined(llmResult')
              /\ ExtractionAttempted(Get(llmResult'))
              /\ result' = Undefined ]_vars
    /\ [][ ( /\ hpc = "awaitingFlow"
             /\ IsDefined(result')
             /\ ~ExtractionAttempted(Get(result')) ) =>
               /\ UNCHANGED <<video, ex, timers>>
               /\ Get(result').snapshots = <<>> ]_vars
    /\ [](IsDefined(result) => (hpc = "idle" /\ ex.pc = "idle" /\ frameTimers = {}))

\* the first frame is sought while handleReIdentify holds a present verdict
\* and has published nothing
C21_Witness ==
    /\ FramePending(1)
    /\ video.seeking
    /\ hpc = "extracting"
    /\ IsDefined(llmResult)
    /\ Get(llmResult).isPresent
    /\ result = Undefined

\* handleReIdentify is called in this step
handleReIdentifyIsCalled == clicks' = clicks + 1

\* a photo or a video reference is missing
FilesMissing ==
    photoDataUri = None \/ videoDataUri = None \/ photoFile = None \/ videoFile = None

\* C22: a call of handleReIdentify that finds a file or a reference missing
\* does not call reIdentifyPerson, sets the error message and the toast, and
\* leaves loading, result and extraction progress as they were.
C22_MissingFilesRejected ==
    [][ (handleReIdentifyIsCalled /\ FilesMissing) =>
            /\ hpc' = "idle"
            /\ hInput' = Undefined
            /\ error' = "Please upload both a photo and a video."
            /\ "Missing Files" \in toasts'
            /\ UNCHANGED <<loading, result, extractionProgress>> ]_vars

\* a call was rejected for a missing file and the earlier result still shows
C22_Witness ==
    /\ clicks > 0
    /\ FilesMissing
    /\ "Missing Files" \in toasts
    /\ error = "Please upload both a photo and a video."
    /\ hpc = "idle"
    /\ ~loading
    /\ result = EarlierResult

----------------------------------------------------------------------------
(* Properties of extractFrame *)

\* the armed 150 ms retries
retryTimers == { t \in timers : t.kind = "retry" }

\* the snapshot of frame k after the retry callback of timer t has run with
\* or without dimensions and with toDataURL answering enc, if there is one
retrySnapshot(t, dimensions, enc) ==
    LET after == retryDraw([St EXCEPT !.timers = @ \ {t}], dimensions, enc)
    IN  IF Len(after.ex.snapshots) >= t.frame /\ ~(t \in after.timers)
        THEN Some(after.ex.snapshots[t.frame])
        ELSE Undefined

\* a retry is armed only for the frame the loop awaits, after the frame's
\* once-only seeked listener has run, and it is the only one
RetryOnlyOnce ==
    \A t \in retryTimers :
       /\ currentFrame(t)
       /\ ~ex.resolved
       /\ ~(Listener("seeked", t.run, t.frame) \in video.listeners)
       /\ retryTimers = {t}

\* C23 as stated: the retry is scheduled once, and at the retry the snapshot
\* is 'extracted' if the dimensions are available and 'failed' otherwise.
C23_RetryExtractsWithDimensions ==
    /\ RetryOnlyOnce
    /\ \A t \in retryTimers :
          /\ \A enc \in EncodedFrames \cup {"throw"} :
                /\ IsDefined(retrySnapshot(t, TRUE, enc))
                /\ Get(retrySnapshot(t, TRUE, enc)).generationStatus = "extracted"
          /\ retrySnapshot(t, FALSE, "throw") = Some(FailedSnapshot(ex.identifications[t.frame]))

\* C23, as the code has it: the retry is scheduled once, by the seeked
\* handler of the awaited frame; the retry callback that finds the frame
\* unresolved resolves it and schedules nothing: 'extracted' with the encoded
\* frame if the dimensions are available and toDataURL answers, 'failed' with
\* the placeholder if the dimensions are missing or toDataURL throws; and a
\* step that takes the retry timer away leaves the frame resolved.
C23_RetryOnceThenResolve ==
    /\ []RetryOnlyOnce
    /\ [](\A t \in retryTimers :
             /\ \A enc \in EncodedFrames :
                   retrySnapshot(t, TRUE, enc) =
                       Some(ExtractedSnapshot(ex.identifications[t.frame], enc))
             /\ retrySnapshot(t, TRUE, "throw") =
                       Some(FailedSnapshot(ex.identifications[t.frame]))
             /\ retrySnapshot(t, FALSE, "throw") =
                       Some(FailedSnapshot(ex.identifications[t.frame])))
    /\ [][ \A t \in retryTimers :
              ~(t \in timers') =>
                 /\ ~(ex'.pc = "frame" /\ ex'.run = t.run /\ ex'.i = t.frame)
                 /\ Len(snapshotsAfter) >= t.frame ]_vars

\* the seek of the second frame has completed without dimensions and its
\* retry is armed
C23_Witness ==
    /\ FramePending(MaxFrames)
    /\ retryTimers = {Timer("retry", ex.run, MaxFrames)}
    /\ ~video.seeking

\* C27: a frame is resolved once.  While extractSnapshots runs, no step
\* changes a snapshot already collected, whatever event or timer the step is;
\* the step that ends the wait for frame k adds the snapshot of k and no other;
\* and a published list of snapshots changes no more.
C27_ResolvedOnce ==
    /\ [][ ex.pc # "idle" =>
              /\ Len(snapshotsAfter) >= Len(ex.snapshots)
              /\ \A k \in 1..Len(ex.snapshots) : snapshotsAfter[k] = ex.snapshots[k] ]_vars
    /\ [][ \A k \in 1..MaxFrames :
              FramePending(k) =>
                 \/ FramePending(k)' /\ ex'.snapshots = ex.snapshots
                 \/ /\ ~FramePending(k)'
                    /\ Len(ex.snapshots) = k - 1
                    /\ Len(snapshotsAfter) = k
                    /\ snapshotsAfter[k].generationStatus \in {"extracted", "failed"} ]_vars
    /\ [][ (IsDefined(result) /\ IsDefined(result')) => result' = result ]_vars

\* the first frame was extracted, and afterwards the element failed while the
\* second frame was awaited: the first snapshot is still 'extracted'
C27_Witness ==
    /\ hpc = "idle"
    /\ IsDefined(result)
    /\ Len(publishedSnapshots) = MaxFrames
    /\ publishedSnapshots[1].generationStatus = "extracted"
    /\ publishedSnapshots[MaxFrames].generationStatus = "failed"
    /\ video.broken

\* C28: one analysis at a time.  handleReIdentify is called only while
\* loading is false and no earlier call is under way; loading is true exactly
\* while a call is under way, from the click to the end of its finally block;
\* and whenever no call is under way, however the last one ended, loading is
\* false and the extraction progress is 0.
C28_OneAnalysisAtATime ==
    /\ [][ handleReIdentifyIsCalled => (~loading /\ hpc = "idle" /\ ex.pc = "idle") ]_vars
    /\ [](loading <=> hpc # "idle")
    /\ [](hpc = "idle" => (extractionProgress = NoProgress /\ ex.pc = "idle"))
    /\ [][ (hpc # "idle" /\ hpc' = "idle") =>
              (~loading' /\ extractionProgress' = NoProgress) ]_vars

\* the last analysis the bound allows has ended in the catch block, after an
\* earlier one
C28_Witness ==
    /\ clicks = MaxRuns
    /\ hpc = "idle"
    /\ ~loading
    /\ extractionProgress = NoProgress
    /\ error = "Processing failed: fetch failed"

\* the frames of the running batch that extractFrame has resolved
resolvedFrames ==
    IF ex.pc = "frame"
    THEN { k \in 1..Len(ex.identifications) : k < ex.i \/ (k = ex.i /\ ex.resolved) }
    ELSE {}

\* C30: once extractFrame has resolved a frame, by the end of the seek, an
\* element error or the timeout, no 'seeked' or 'error' listener it
\* registered for that frame is still attached to the video element.
C30_NoListenerOfResolvedFrame ==
    \A l \in video.listeners :
        (l.type \in {"seeked", "error"} /\ l.run = ex.run) => ~(l.frame \in resolvedFrames)

----------------------------------------------------------------------------
(* The handleReIdentify of src/src/app/page.tsx *)

\* the title of the toast its if / else-if chain shows for the result r of
\* reIdentifyPerson, or None when no branch is taken
resultToast(r) ==
    IF r.isPresent THEN "Person Identified"
    ELSE IF ~r.isPresent /\ r.reason # "" THEN "Person Not Identified"
    ELSE IF includes(toLowerCase(r.reason), "error") THEN "Processing Issue"
    ELSE None

\* C24 as stated: when reIdentifyPerson returns isPresent false with a reason
\* that contains "error", the page shows the "Processing Issue" toast.
C24_ErrorReasonShowsProcessingIssue ==
    (Returned /\ ~verdict.isPresent /\ includes(toLowerCase(verdict.reason), "error")) =>
        resultToast(verdict) = "Processing Issue"

----------------------------------------------------------------------------
(* Algebra of the flow's validation *)

\* C29: validation is idempotent.  The list of a returned verdict, which the
\* flow validated against the estimated duration of the video reference, is
\* returned unchanged when the same filter, map and sort are applied to it
\* again with that duration.
C29_ValidationIdempotent ==
    ReturnedModelList =>
        validateIdentifications(verdictIds, estimateVideoDuration(input.videoDataUri))
            = verdictIds

\* the model's list was out of order and held an invalid box, so validation
\* changed it, and the validated list holds both identifications
C29_Witness ==
    /\ ReturnedModelList
    /\ Len(modelIds) = 2
    /\ modelIds[1].timestamp > modelIds[2].timestamp
    /\ \E j \in DOMAIN modelIds :
          /\ IsDefined(modelIds[j].boundingBox)
          /\ boxInvalid(Get(modelIds[j].boundingBox))
    /\ Len(verdictIds) = 2
    /\ verdictIds # modelIds

----------------------------------------------------------------------------
(* Properties of the page under drops *)

\* handleReIdentify publishes a result in this step
resultPublished == hpc # "idle" /\ result = Undefined /\ IsDefined(result')

\* C25 as stated: a result that comes to be shown was computed from the photo
\* and the video that are selected when it is shown.
C25_ResultOfSelectedFiles ==
    [][ resultPublished =>
            /\ Get(hInput).photoDataUri = photoFile'
            /\ Get(hInput).videoDataUri = videoFile' ]_vars

\* C26 as stated: while an analysis runs, the video whose data URI went to
\* the model is the video loaded in the hidden element.
C26_SameVideoAnalysedAndExtracted ==
    hpc # "idle" => Get(hInput).videoDataUri = videoSrc

====
